---- MODULE Spec2Model ----
(***************************************************************************)
(* The four dark-mode patch scripts of src/zscripts: add_dark_mode.py,     *)
(* add_toggle_component.py, add_toggle_final.py and manual_toggle_add.py.  *)
(*                                                                         *)
(* A file's text is a sequence of tokens.  Every token stands for one      *)
(* literal piece of text; the regular expressions of the scripts are       *)
(* translated to matchers over token sequences, and every character window *)
(* (content[a:b]) is computed from the literal lengths of the tokens.      *)
(***************************************************************************)
EXTENDS Integers, Sequences, FiniteSets, TLC

VARIABLES disk, disk0, script, pc, idx, total_files, modified_count, manual_count,
          out, last, togIns, impIns, reps

vars == <<disk, disk0, script, pc, idx, total_files, modified_count, manual_count,
          out, last, togIns, impIns, reps>>

(***************************************************************************)
(* Tokens.  The value of a token is a name; the literal text is in the     *)
(* comment.  Literal lengths are in TokLen.                                *)
(***************************************************************************)
NL == "NL"                    \* one newline character
SP1 == "SP1"                  \* ' '
SP6 == "SP6"                  \* 6 blanks
SP8 == "SP8"                  \* 8 blanks
SP12 == "SP12"                \* 12 blanks
SP14 == "SP14"                \* 14 blanks
IMPORT == "import React from 'react';"
IMPORT_DMT_AUTH == "import DarkModeToggle from '../components/DarkModeToggle';"
IMPORT_DMT_STD == "import DarkModeToggle from '../../components/DarkModeToggle';"
TOGGLE == "<DarkModeToggle />"
CMT_DMT == "{/* Dark Mode Toggle */}"
CMT_BELL == "/* Notification Bell */"
CMT_ACTIONS == "/* Actions */"
BELL == "<NotificationBell />"
LOGOUT == "<button onClick={handleLogout}>"
DIV_GAP == "<div className='flex items-center gap-4'>"        \* double quotes in the file
DIV_SPACE == "<div className='flex items-center space-x-4'>"  \* double quotes in the file
DIV_ABS == "<div className='absolute top-4 right-4'>"         \* double quotes in the file
DIV_CLOSE == "</div>"
RETURN_DIV == "return (<div className='min-h-screen'>"        \* double quotes in the file
LINK == "<Link to='/customer/dashboard'>Dashboard</Link>"     \* double quotes in the file

\* CLASS_MAPPINGS: pattern base(?!\s*dark:) -> 'base dark-variant', in dict order
CLASS_MAPPINGS ==
  << [base |-> "bg-gray-50",      dark |-> "dark:bg-gray-900"],
     [base |-> "bg-gray-100",     dark |-> "dark:bg-gray-900"],
     [base |-> "bg-white",        dark |-> "dark:bg-gray-800"],
     [base |-> "text-gray-600",   dark |-> "dark:text-gray-300"],
     [base |-> "text-gray-700",   dark |-> "dark:text-gray-200"],
     [base |-> "text-gray-800",   dark |-> "dark:text-gray-100"],
     [base |-> "text-gray-900",   dark |-> "dark:text-white"],
     [base |-> "text-green-800",  dark |-> "dark:text-green-400"],
     [base |-> "text-blue-600",   dark |-> "dark:text-blue-400"],
     [base |-> "text-indigo-600", dark |-> "dark:text-indigo-400"] >>

BaseClasses == {CLASS_MAPPINGS[k].base : k \in DOMAIN CLASS_MAPPINGS}
DarkClasses == {CLASS_MAPPINGS[k].dark : k \in DOMAIN CLASS_MAPPINGS}

\* the dark: variant CLASS_MAPPINGS gives a base class
DarkOf(b) == CLASS_MAPPINGS[CHOOSE k \in DOMAIN CLASS_MAPPINGS : CLASS_MAPPINGS[k].base = b].dark

\* number of characters of the literal text of a token
TokLen(t) ==
  CASE t = NL -> 1 [] t = SP1 -> 1 [] t = SP6 -> 6 [] t = SP8 -> 8
    [] t = SP12 -> 12 [] t = SP14 -> 14
    [] t = IMPORT -> 26 [] t = IMPORT_DMT_AUTH -> 58 [] t = IMPORT_DMT_STD -> 61
    [] t = TOGGLE -> 18 [] t = CMT_DMT -> 24 [] t = CMT_BELL -> 23
    [] t = CMT_ACTIONS -> 13 [] t = BELL -> 20 [] t = LOGOUT -> 31
    [] t = DIV_GAP -> 41 [] t = DIV_SPACE -> 45 [] t = DIV_ABS -> 40
    [] t = DIV_CLOSE -> 6 [] t = RETURN_DIV -> 38 [] t = LINK -> 47
    [] t = "bg-gray-50" -> 10 [] t = "bg-gray-100" -> 11 [] t = "bg-white" -> 8
    [] t = "text-gray-600" -> 13 [] t = "text-gray-700" -> 13
    [] t = "text-gray-800" -> 13 [] t = "text-gray-900" -> 13
    [] t = "text-green-800" -> 14 [] t = "text-blue-600" -> 13
    [] t = "text-indigo-600" -> 15
    [] t = "dark:bg-gray-900" -> 16 [] t = "dark:bg-gray-800" -> 16
    [] t = "dark:text-gray-300" -> 18 [] t = "dark:text-gray-200" -> 18
    [] t = "dark:text-gray-100" -> 18 [] t = "dark:text-white" -> 15
    [] t = "dark:text-green-400" -> 19 [] t = "dark:text-blue-400" -> 18
    [] t = "dark:text-indigo-400" -> 20

(***************************************************************************)
(* What the regular expressions and the substring tests see of a token.    *)
(***************************************************************************)
IsSpace(t) == t \in {NL, SP1, SP6, SP8, SP12, SP14}             \* \s
HasNewline(t) == t = NL                                          \* '\n' in t
HasLt(t) == t \in {TOGGLE, BELL, LOGOUT, DIV_GAP, DIV_SPACE, DIV_ABS,
                   DIV_CLOSE, RETURN_DIV, LINK}                  \* '<' in t
ContainsDMT(t) == t \in {IMPORT_DMT_AUTH, IMPORT_DMT_STD, TOGGLE} \* 'DarkModeToggle' in t
IsToggleElement(t) == t = TOGGLE                                 \* '<DarkModeToggle />' in t
IsToggleTag(t) == t = TOGGLE                                     \* '<DarkModeToggle' in t
IsDMTImport(t) == t \in {IMPORT_DMT_AUTH, IMPORT_DMT_STD}        \* 'import DarkModeToggle' in t
IsImportStmt(t) == t \in {IMPORT, IMPORT_DMT_AUTH, IMPORT_DMT_STD} \* import\s+.*?from\s+['"].*?['"];
IsDarkPrefixed(t) == t \in DarkClasses                           \* t starts with 'dark:'
OpensComment(t) == t \in {CMT_BELL, CMT_ACTIONS}                 \* t starts with '/*'
ClosesComment(t) == t \in {CMT_BELL, CMT_ACTIONS}                \* t ends with '*/'
IsBell(t) == t = BELL                                            \* t starts with '<NotificationBell'
IsLogout(t) == t = LOGOUT                                        \* <button[^>]*?onClick={handleLogout}
IsFlexDiv(t) == t \in {DIV_GAP, DIV_SPACE}                       \* <div[^>]*?className="[^"]*flex[^"]*"[^>]*>
IsFlexSpaceDiv(t) == t = DIV_SPACE                               \* <div ... flex ... space-x- ...>
IsFlexCenterDiv(t) == t \in {DIV_GAP, DIV_SPACE}                 \* <div ... flex ... items-center ...>
IsFlexGapDiv(t) == t = DIV_GAP                                   \* <div className="flex items-center gap-\d+">
IsDivTag(t) == t \in {DIV_GAP, DIV_SPACE, DIV_ABS}               \* t starts with '<div' and ends with '>'
IsReturnDiv(t) == t = RETURN_DIV                                 \* return\s*\(\s*<div className="min-h-screen[^"]*">
IsDashboardLink(t) == t = LINK                                   \* <Link to="/[^/]+/dashboard"[^>]*>[^<]*</Link>

\* number of characters of LINK matched by <Link to="/[^/]+/dashboard"
LinkTagLen == 30
\* offset in LOGOUT at which the lower-cased text 'logout' ends
LogoutNeedleEnd == 29
\* length of the needle '<DarkModeToggle'
ToggleNeedleLen == 15

(***************************************************************************)
(* Sequences and character offsets.                                        *)
(***************************************************************************)
Min(S) == CHOOSE x \in S : \A y \in S : x <= y
Max(S) == CHOOSE x \in S : \A y \in S : x >= y

\* content[:i] and content[i:] with i counted in tokens
Before(c, i) == SubSeq(c, 1, i)
After(c, i) == SubSeq(c, i + 1, Len(c))

\* first index >= i that holds no whitespace token (Len(c)+1 when there is none)
SkipWs(c, i) ==
  LET S == {j \in i..Len(c) : ~IsSpace(c[j])}
  IN IF S = {} THEN Len(c) + 1 ELSE Min(S)

\* first index >= i of a token holding '<' (Len(c)+1 when there is none)
NextLt(c, i) ==
  LET S == {j \in i..Len(c) : HasLt(c[j])}
  IN IF S = {} THEN Len(c) + 1 ELSE Min(S)

\* number of characters of tokens a..b of c
RECURSIVE Chars(_, _, _)
Chars(c, a, b) == IF a > b THEN 0 ELSE TokLen(c[a]) + Chars(c, a + 1, b)

\* occurrences of '<DarkModeToggle />' and of 'import DarkModeToggle' in c
NumToggles(c) == Cardinality({i \in DOMAIN c : IsToggleElement(c[i])})
NumDMTImports(c) == Cardinality({i \in DOMAIN c : IsDMTImport(c[i])})

AllSpace(ws) == \A i \in DOMAIN ws : IsSpace(ws[i])              \* ws.strip() == ''

\* the result of a transformation that matched nothing: (content, False)
NoChange(c) == [content |-> c, changed |-> FALSE, ms |-> 0, me |-> 0]
\* (content, True); the match covered tokens ms+1 .. me of the input
Changed(c, ms, me) == [content |-> c, changed |-> TRUE, ms |-> ms, me |-> me]

(***************************************************************************)
(* add_dark_mode.py                                                        *)
(***************************************************************************)
get_import_path(file_path) ==
  IF \E i \in DOMAIN file_path : file_path[i] = "auth"
  THEN "../components/DarkModeToggle"
  ELSE "../../components/DarkModeToggle"

\* f"import DarkModeToggle from '{import_path}';"
ImportStatement(import_path) ==
  IF import_path = "../components/DarkModeToggle" THEN IMPORT_DMT_AUTH ELSE IMPORT_DMT_STD

add_import(content, file_path) ==
  IF \E i \in DOMAIN content : ContainsDMT(content[i])
  THEN NoChange(content)
  ELSE LET matches == {i \in DOMAIN content : IsImportStmt(content[i])}
       IN IF matches # {}
          THEN LET insert_pos == Max(matches)
               IN Changed(Before(content, insert_pos)
                            \o <<NL, ImportStatement(get_import_path(file_path))>>
                            \o After(content, insert_pos),
                          insert_pos - 1, insert_pos)
          ELSE NoChange(content)

\* the pattern without its negative lookahead
FollowedByDark_NoLookahead(c, i) == FALSE

\* (?!\s*dark:) fails at the token after index i
FollowedByDark(c, i) ==
  LET j == SkipWs(c, i + 1) IN j <= Len(c) /\ IsDarkPrefixed(c[j])

\* re.sub(pattern, replacement, content) for one entry of CLASS_MAPPINGS
ReSub(m, c) ==
  LET F[i \in 0..Len(c)] ==
        IF i = 0 THEN <<>>
        ELSE F[i - 1] \o (IF c[i] = m.base /\ ~FollowedByDark(c, i)
                          THEN <<m.base, SP1, m.dark>>
                          ELSE <<c[i]>>)
  IN F[Len(c)]

\* the loop of add_dark_mode_classes from entry k of CLASS_MAPPINGS on
RECURSIVE ApplyMappings(_, _, _)
ApplyMappings(k, content, modified) ==
  IF k > Len(CLASS_MAPPINGS)
  THEN [content |-> content, changed |-> modified]
  ELSE LET new_content == ReSub(CLASS_MAPPINGS[k], content)
       IN IF new_content # content
          THEN ApplyMappings(k + 1, new_content, TRUE)
          ELSE ApplyMappings(k + 1, content, modified)

add_dark_mode_classes(content) == ApplyMappings(1, content, FALSE)

\* group 2 of notification_pattern, /\*.*?Notification Bell.*?\*/\s*, tried with
\* its '/*' in token `from`, followed by group 3: the index of the
\* <NotificationBell token matched, 0 when there is no match (re.DOTALL)
BellAfterComment(c, from) ==
  LET K == {k \in from..Len(c) : c[k] = CMT_BELL}
  IN IF K = {} THEN 0
     ELSE LET M == {m \in Min(K)..Len(c) :
                      /\ ClosesComment(c[m])
                      /\ SkipWs(c, m + 1) <= Len(c)
                      /\ IsBell(c[SkipWs(c, m + 1)])}
          IN IF M = {} THEN 0 ELSE SkipWs(c, Min(M) + 1)

\* notification_pattern matched from the start of token i: index of group 3, or 0
BellMatchAt(c, i) ==
  LET j == SkipWs(c, i)
  IN IF j > Len(c) THEN 0
     ELSE IF OpensComment(c[j]) THEN BellAfterComment(c, j)
     ELSE IF c[j] = CMT_DMT /\ j = i THEN BellAfterComment(c, j)
     ELSE IF IsBell(c[j]) THEN j
     ELSE 0

add_dark_mode_toggle(content, file_path) ==
  IF \E i \in DOMAIN content : IsToggleElement(content[i])
  THEN NoChange(content)
  ELSE
    LET starts == {i \in DOMAIN content : BellMatchAt(content, i) # 0}
    IN IF starts # {}
       THEN LET s == Min(starts)
                indent == IF IsSpace(content[s])
                          THEN SubSeq(content, s, SkipWs(content, s) - 1)
                          ELSE <<>>
                g3 == BellMatchAt(content, s)
                insert_text == <<NL>> \o indent \o <<CMT_DMT, NL>> \o indent
                                 \o <<TOGGLE, NL>> \o indent
            IN Changed(Before(content, g3 - 1) \o insert_text \o After(content, g3 - 1),
                       s - 1, g3)
       ELSE
         IF \E i \in DOMAIN content : IsLogout(content[i])
         THEN LET containers == {d \in DOMAIN content :
                                   /\ IsFlexDiv(content[d])
                                   /\ NextLt(content, d + 1) <= Len(content)
                                   /\ IsLogout(content[NextLt(content, d + 1)])}
              IN IF containers # {}
                 THEN LET d == Min(containers)
                          insert_pos == NextLt(content, d + 1) - 1
                          group2 == SubSeq(content, d + 1, insert_pos)
                          indent == IF AllSpace(group2) THEN <<SP14>> ELSE group2
                          insert_text == <<NL>> \o indent \o <<TOGGLE, NL>> \o indent
                      IN Changed(Before(content, insert_pos) \o insert_text
                                   \o After(content, insert_pos),
                                 d - 1, insert_pos + 1)
                 ELSE NoChange(content)
         ELSE NoChange(content)

(***************************************************************************)
(* add_toggle_component.py                                                 *)
(***************************************************************************)
toggle_html == <<NL, SP6, CMT_DMT, NL, SP6, DIV_ABS, NL, SP8, TOGGLE, NL, SP6, DIV_CLOSE, NL>>

add_toggle_to_auth_page(content) ==
  LET matches == {i \in DOMAIN content : IsReturnDiv(content[i])}
  IN IF matches # {}
     THEN LET insert_pos == Min(matches)
          IN Changed(Before(content, insert_pos) \o toggle_html \o After(content, insert_pos),
                     insert_pos - 1, insert_pos)
     ELSE NoChange(content)

add_toggle_to_standard_page(content) ==
  LET c == content
      \* Pattern 1: (\s+)(\/\* Notification Bell \*\/)
      m1 == {i \in DOMAIN c : /\ IsSpace(c[i])
                              /\ SkipWs(c, i) <= Len(c)
                              /\ c[SkipWs(c, i)] = CMT_BELL}
      \* Pattern 2: flex space-x div, \s*, <NotificationBell
      m2 == {d \in DOMAIN c : /\ IsFlexSpaceDiv(c[d])
                              /\ SkipWs(c, d + 1) <= Len(c)
                              /\ IsBell(c[SkipWs(c, d + 1)])}
      \* Pattern 3: flex items-center div, [^<]*?, logout button
      m3 == {d \in DOMAIN c : /\ IsFlexCenterDiv(c[d])
                              /\ NextLt(c, d + 1) <= Len(c)
                              /\ IsLogout(c[NextLt(c, d + 1)])}
      \* Pattern 4: \/\* Actions \*\/\s*<div[^>]*>
      m4 == {a \in DOMAIN c : /\ c[a] = CMT_ACTIONS
                              /\ SkipWs(c, a + 1) <= Len(c)
                              /\ IsDivTag(c[SkipWs(c, a + 1)])}
  IN IF m1 # {}
     THEN LET s == Min(m1)
              indent == SubSeq(c, s, SkipWs(c, s) - 1)
              insert_text == indent \o <<CMT_DMT, NL>> \o indent \o <<TOGGLE, NL, NL>> \o indent
          IN Changed(Before(c, s - 1) \o insert_text \o After(c, s - 1), s - 1, SkipWs(c, s))
     ELSE IF m2 # {}
     THEN LET d == Min(m2)
              b == SkipWs(c, d + 1)
              whitespace == SubSeq(c, d + 1, b - 1)
              indent == IF AllSpace(whitespace) THEN whitespace ELSE <<NL, SP14>>
              insert_text == <<c[d]>> \o indent \o <<TOGGLE>> \o indent \o <<c[b]>>
          IN Changed(Before(c, d - 1) \o insert_text \o After(c, b), d - 1, b)
     ELSE IF m3 # {}
     THEN LET d == Min(m3)
              b == NextLt(c, d + 1)
              whitespace == SubSeq(c, d + 1, b - 1)
              indent == IF \E i \in DOMAIN whitespace : HasNewline(whitespace[i])
                        THEN <<NL, SP14>> ELSE <<SP1>>
              insert_text == <<c[d]>> \o whitespace \o <<TOGGLE>> \o indent \o <<c[b]>>
          IN Changed(Before(c, d - 1) \o insert_text \o After(c, b), d - 1, b)
     ELSE IF m4 # {}
     THEN LET a == Min(m4)
              insert_pos == SkipWs(c, a + 1)
              insert_text == <<NL, SP14, TOGGLE, NL, SP14>>
          IN Changed(Before(c, insert_pos) \o insert_text \o After(c, insert_pos),
                     a - 1, insert_pos)
     ELSE NoChange(c)

(***************************************************************************)
(* add_toggle_final.py                                                     *)
(***************************************************************************)
\* content[match.end():match.end()+200]
NearbyAfter == 200
\* content[max(0, match.start()-100):match.end()+100] and content[max(0, match.start()-100):match.start()]
NearbyAround == 100

\* '<DarkModeToggle' in content[e':e'+200], e' the end of token e
ToggleNearAfter(c, e) ==
  \E t \in (e + 1)..Len(c) :
     IsToggleTag(c[t]) /\ Chars(c, e + 1, t - 1) + ToggleNeedleLen <= NearbyAfter

\* 'logout' in content[e':e'+200].lower()
LogoutNearAfter(c, e) ==
  \E t \in (e + 1)..Len(c) :
     IsLogout(c[t]) /\ Chars(c, e + 1, t - 1) + LogoutNeedleEnd <= NearbyAfter

\* '<DarkModeToggle' in the text from 100 characters before token d to 100
\* characters after the matched part of the link token n
ToggleNearAround(c, d, n) ==
  \/ \E t \in 1..(d - 1) : IsToggleTag(c[t]) /\ Chars(c, t, d - 1) <= NearbyAround
  \/ \E t \in (n + 1)..Len(c) :
        /\ IsToggleTag(c[t])
        /\ (TokLen(c[n]) - LinkTagLen) + Chars(c, n + 1, t - 1) + ToggleNeedleLen
             <= NearbyAround

\* whitespace = match.group(2) if match.group(2) else '\n              '
OrDefault(group2) == IF group2 # <<>> THEN group2 ELSE <<NL, SP14>>

\* the chain with pattern 2 tried before pattern 1
add_toggle_generic_Pattern2First(content) ==
  LET c == content
      MEnd(d) == SkipWs(c, d + 1) - 1
      m1 == {d \in DOMAIN c : IsFlexGapDiv(c[d]) /\ ~ToggleNearAfter(c, MEnd(d))}
      m2 == {d \in DOMAIN c : /\ IsFlexSpaceDiv(c[d])
                              /\ ~ToggleNearAfter(c, MEnd(d))
                              /\ LogoutNearAfter(c, MEnd(d))}
      m3 == {d \in DOMAIN c : /\ IsFlexDiv(c[d])
                              /\ SkipWs(c, d + 1) <= Len(c)
                              /\ IsDashboardLink(c[SkipWs(c, d + 1)])}
      Splice(d) ==
        LET whitespace == OrDefault(SubSeq(c, d + 1, MEnd(d)))
            insert_text == <<c[d]>> \o whitespace \o <<TOGGLE>> \o whitespace
        IN Changed(Before(c, d - 1) \o insert_text \o After(c, MEnd(d)), d - 1, MEnd(d))
  IN IF m2 # {} THEN Splice(Max(m2))
     ELSE IF m1 # {} THEN Splice(Max(m1))
     ELSE IF m3 # {} /\ ~ToggleNearAround(c, Min(m3), SkipWs(c, Min(m3) + 1))
     THEN LET d == Min(m3)
              n == SkipWs(c, d + 1)
              whitespace == OrDefault(SubSeq(c, d + 1, n - 1))
              insert_text == <<c[d]>> \o whitespace \o <<TOGGLE>> \o whitespace \o <<c[n]>>
          IN Changed(Before(c, d - 1) \o insert_text \o After(c, n), d - 1, n)
     ELSE NoChange(c)

add_toggle_generic(content) ==
  LET c == content
      \* last token of the match (div)(\s*) that starts at d
      MEnd(d) == SkipWs(c, d + 1) - 1
      m1 == {d \in DOMAIN c : IsFlexGapDiv(c[d]) /\ ~ToggleNearAfter(c, MEnd(d))}
      m2 == {d \in DOMAIN c : /\ IsFlexSpaceDiv(c[d])
                              /\ ~ToggleNearAfter(c, MEnd(d))
                              /\ LogoutNearAfter(c, MEnd(d))}
      m3 == {d \in DOMAIN c : /\ IsFlexDiv(c[d])
                              /\ SkipWs(c, d + 1) <= Len(c)
                              /\ IsDashboardLink(c[SkipWs(c, d + 1)])}
      Splice(d) ==
        LET whitespace == OrDefault(SubSeq(c, d + 1, MEnd(d)))
            insert_text == <<c[d]>> \o whitespace \o <<TOGGLE>> \o whitespace
        IN Changed(Before(c, d - 1) \o insert_text \o After(c, MEnd(d)), d - 1, MEnd(d))
  IN IF m1 # {} THEN Splice(Max(m1))
     ELSE IF m2 # {} THEN Splice(Max(m2))
     ELSE IF m3 # {} /\ ~ToggleNearAround(c, Min(m3), SkipWs(c, Min(m3) + 1))
     THEN LET d == Min(m3)
              n == SkipWs(c, d + 1)
              whitespace == OrDefault(SubSeq(c, d + 1, n - 1))
              insert_text == <<c[d]>> \o whitespace \o <<TOGGLE>> \o whitespace \o <<c[n]>>
          IN Changed(Before(c, d - 1) \o insert_text \o After(c, n), d - 1, n)
     ELSE NoChange(c)

(***************************************************************************)
(* manual_toggle_add.py: the splice of add_toggle                          *)
(***************************************************************************)
\* '<div className="flex items-center gap-' in content[max(0, start-100):start]
GapDivBefore(c, i) ==
  \E g \in 1..(i - 1) : IsFlexGapDiv(c[g]) /\ Chars(c, g, i - 1) <= NearbyAround

\* f'<DarkModeToggle />\n              {link_tag}'
InsertBeforeLink(link_tag) == <<TOGGLE, NL, SP14>> \o link_tag

\* the f-string of the wrapping branch with {link_tag} left out
WrapLink_DropsLink(link_tag) ==
  <<DIV_GAP, NL, SP14, TOGGLE, NL, SP14>> \o <<NL, SP12, DIV_CLOSE>>

\* f'<div className="flex items-center gap-4">\n ... <DarkModeToggle />\n ... {link_tag}\n ... </div>'
WrapLink(link_tag) ==
  <<DIV_GAP, NL, SP14, TOGGLE, NL, SP14>> \o link_tag \o <<NL, SP12, DIV_CLOSE>>

add_toggle_splice(content) ==
  LET c == content
      matches == {i \in DOMAIN c : IsDashboardLink(c[i])}
  IN IF matches # {}
     THEN LET i == Min(matches)
              link_tag == <<c[i]>>
              insert_text ==
                IF GapDivBefore(c, i) THEN InsertBeforeLink(link_tag) ELSE WrapLink(link_tag)
          IN Changed(Before(c, i - 1) \o insert_text \o After(c, i), i - 1, i)
     ELSE NoChange(c)


(***************************************************************************)
(* Files, paths and the hard-coded file lists.                             *)
(***************************************************************************)
P_AUTH == <<"client", "src", "pages", "auth", "Register.tsx">>
P_CHECKOUT == <<"client", "src", "pages", "customer", "Checkout.tsx">>
P_REVIEWS == <<"client", "src", "pages", "customer", "MyReviews.tsx">>
P_B2B == <<"client", "src", "pages", "retailer", "B2BCheckout.tsx">>
Paths == {P_AUTH, P_CHECKOUT, P_REVIEWS, P_B2B}

DARK == "add_dark_mode"
COMPONENT == "add_toggle_component"
FINAL == "add_toggle_final"
MANUAL_ADD == "manual_toggle_add"
Scripts == {DARK, COMPONENT, FINAL, MANUAL_ADD}

\* the file list each main() walks: entries of the list in the source, in its order
FileList(s) ==
  CASE s = DARK -> <<P_B2B, P_REVIEWS, P_AUTH>>
    [] s = COMPONENT -> <<P_AUTH, P_REVIEWS, P_B2B>>
    [] s = FINAL -> <<P_CHECKOUT, P_REVIEWS, P_B2B>>
    [] s = MANUAL_ADD -> <<P_REVIEWS, P_B2B>>

Listed(s) == {FileList(s)[i] : i \in DOMAIN FileList(s)}

\* skip_files of add_dark_mode.main
skip_files == {<<"client", "src", "pages", "customer", "Dashboard.tsx">>}

\* 'auth' in str(file_path)
AuthInStr(file_path) == \E i \in DOMAIN file_path : file_path[i] = "auth"

\* a path on disk: absent, or a file with its text; mode "noread" makes
\* open(path, 'r') raise, mode "nowrite" makes open(path, 'w') raise
Missing == [exists |-> FALSE, mode |-> "rw", content |-> <<>>]
File(c, m) == [exists |-> TRUE, mode |-> m, content |-> c]

(***************************************************************************)
(* The per-file handlers.  Each gives what one call did: the line printed  *)
(* (tag), the value returned (ret), whether an exception was caught or     *)
(* left the function (raised), and what was written.                       *)
(***************************************************************************)
Base ==
  [raised |-> FALSE, caught |-> FALSE, wrote |-> FALSE, written |-> <<>>,
   ret |-> FALSE, tag |-> "", didRead |-> FALSE, original |-> <<>>, new |-> <<>>,
   tcalled |-> FALSE, tin |-> <<>>, tres |-> NoChange(<<>>),
   ccalled |-> FALSE, cin |-> <<>>, cout |-> <<>>, imported |-> FALSE]

\* add_dark_mode.process_file
dark_process_file(file_path, f) ==
  IF f.mode = "noread"
  THEN [Base EXCEPT !.caught = TRUE, !.tag = "ERROR"]
  ELSE
    LET original_content == f.content
        r1 == add_import(original_content, file_path)
        r2 == add_dark_mode_classes(r1.content)
        r3 == add_dark_mode_toggle(r2.content, file_path)
        done == [Base EXCEPT !.didRead = TRUE, !.original = original_content,
                             !.new = r3.content, !.imported = r1.changed,
                             !.ccalled = TRUE, !.cin = r1.content, !.cout = r2.content,
                             !.tcalled = TRUE, !.tin = r2.content, !.tres = r3]
    IN IF r3.content # original_content
       THEN IF f.mode = "nowrite"
            THEN [done EXCEPT !.caught = TRUE, !.tag = "ERROR"]
            ELSE [done EXCEPT !.wrote = TRUE, !.written = r3.content,
                              !.ret = TRUE, !.tag = "OK"]
       ELSE [done EXCEPT !.tag = "SKIP"]

\* the tail with the write made unconditional
WriteIfModified_Always(f, r) ==
  [Base EXCEPT !.didRead = TRUE, !.original = f.content, !.new = r.content,
               !.tcalled = TRUE, !.tin = f.content, !.tres = r,
               !.wrote = TRUE, !.written = r.content, !.ret = TRUE, !.tag = "OK"]

\* the tail shared by add_toggle_component.process_file and
\* add_toggle_final.process_file: write when modified, else [MANUAL]
WriteIfModified(f, r) ==
  LET done == [Base EXCEPT !.didRead = TRUE, !.original = f.content,
                           !.new = r.content, !.tcalled = TRUE,
                           !.tin = f.content, !.tres = r]
  IN IF r.changed
     THEN IF f.mode = "nowrite"
          THEN [done EXCEPT !.caught = TRUE, !.tag = "ERROR"]
          ELSE [done EXCEPT !.wrote = TRUE, !.written = r.content,
                            !.ret = TRUE, !.tag = "OK"]
     ELSE [done EXCEPT !.tag = "MANUAL"]

\* add_toggle_component.process_file
component_process_file(file_path, f) ==
  IF f.mode = "noread"
  THEN [Base EXCEPT !.caught = TRUE, !.tag = "ERROR"]
  ELSE IF \E i \in DOMAIN f.content : IsToggleTag(f.content[i])
  THEN [Base EXCEPT !.didRead = TRUE, !.original = f.content, !.new = f.content,
                    !.tag = "SKIP"]
  ELSE IF ~\E i \in DOMAIN f.content : IsDMTImport(f.content[i])
  THEN [Base EXCEPT !.didRead = TRUE, !.original = f.content, !.new = f.content,
                    !.tag = "SKIP"]
  ELSE IF AuthInStr(file_path)
  THEN WriteIfModified(f, add_toggle_to_auth_page(f.content))
  ELSE WriteIfModified(f, add_toggle_to_standard_page(f.content))

\* add_toggle_final.process_file: the two early returns print nothing
final_process_file(file_path, f) ==
  IF f.mode = "noread"
  THEN [Base EXCEPT !.caught = TRUE, !.tag = "ERROR"]
  ELSE IF \E i \in DOMAIN f.content : IsToggleTag(f.content[i])
  THEN [Base EXCEPT !.didRead = TRUE, !.original = f.content, !.new = f.content]
  ELSE IF ~\E i \in DOMAIN f.content : IsDMTImport(f.content[i])
  THEN [Base EXCEPT !.didRead = TRUE, !.original = f.content, !.new = f.content]
  ELSE WriteIfModified(f, add_toggle_generic(f.content))

\* manual_toggle_add.add_toggle: no try/except, an exception leaves the function
add_toggle(file_path, f) ==
  IF f.mode = "noread"
  THEN [Base EXCEPT !.raised = TRUE]
  ELSE IF \E i \in DOMAIN f.content : IsToggleTag(f.content[i])
  THEN [Base EXCEPT !.didRead = TRUE, !.original = f.content, !.new = f.content,
                    !.tag = "SKIP"]
  ELSE
    LET r == add_toggle_splice(f.content)
        done == [Base EXCEPT !.didRead = TRUE, !.original = f.content,
                             !.new = r.content, !.tcalled = TRUE,
                             !.tin = f.content, !.tres = r]
    IN IF r.changed
       THEN IF f.mode = "nowrite"
            THEN [done EXCEPT !.raised = TRUE]
            ELSE [done EXCEPT !.wrote = TRUE, !.written = r.content,
                              !.ret = TRUE, !.tag = "OK"]
       ELSE [done EXCEPT !.tag = "FAILED"]

\* the per-file handler of script s
process_file(s, file_path, f) ==
  CASE s = DARK -> dark_process_file(file_path, f)
    [] s = COMPONENT -> component_process_file(file_path, f)
    [] s = FINAL -> final_process_file(file_path, f)
    [] s = MANUAL_ADD -> add_toggle(file_path, f)


(***************************************************************************)
(* State.                                                                  *)
(*   disk            every path: absent, or a file (text and access mode)  *)
(*   disk0           the disk as it was when the process started           *)
(*   script          the script this process runs                          *)
(*   pc, idx         position of main(): in the loop over FileList(script) *)
(*                   at entry idx, "done" after the summary, "crashed"     *)
(*                   when an exception left main(); "file" in SpecFile     *)
(*   total_files, modified_count, manual_count   the counters of main()    *)
(*   out             the status and summary lines printed so far           *)
(*   last            the last call of a per-file handler and what it did;  *)
(*                   prevWrote: the call before it was the same call and   *)
(*                   wrote the file                                        *)
(*   togIns, impIns  per path, the number of <DarkModeToggle /> elements   *)
(*                   and of DarkModeToggle imports that writes have added  *)
(*   reps            2 when the last call repeated the call before it      *)
(*                   (same script, same path), else 1; 0 before any call   *)
(***************************************************************************)
NoCall == [called |-> FALSE, script |-> "", path |-> <<>>, prevWrote |-> FALSE, res |-> Base]

Line(tag, path) == [tag |-> tag, path |-> path]

\* the effect of one call of script s's handler on the existing path p
Handle(s, p, r) ==
  /\ disk' = IF r.wrote THEN [disk EXCEPT ![p].content = r.written] ELSE disk
  /\ last' = [called |-> TRUE, script |-> s, path |-> p, res |-> r,
              prevWrote |-> (last.called /\ last.script = s /\ last.path = p
                             /\ last.res.wrote)]
  /\ togIns' = IF r.wrote
               THEN [togIns EXCEPT ![p] = @ + NumToggles(r.written) - NumToggles(disk[p].content)]
               ELSE togIns
  /\ impIns' = IF r.wrote
               THEN [impIns EXCEPT ![p] = @ + NumDMTImports(r.written) - NumDMTImports(disk[p].content)]
               ELSE impIns

Printed(o, r, p) == IF r.tag # "" THEN Append(o, Line(r.tag, p)) ELSE o

InLoop(s) == script = s /\ pc = "loop" /\ idx <= Len(FileList(s))
AtEnd(s) == script = s /\ pc = "loop" /\ idx > Len(FileList(s))

\* '[MANUAL]' in str(result): str(result) is 'True' or 'False'
ManualInStr(result) == FALSE

\* add_dark_mode.main: one iteration of the loop over the pages
DarkStep ==
  /\ InLoop(DARK)
  /\ LET p == FileList(DARK)[idx]
     IN IF p \in skip_files
        THEN /\ out' = Append(out, Line("SKIP", p))
             /\ UNCHANGED <<disk, last, togIns, impIns, total_files, modified_count>>
        ELSE IF disk[p].exists
        THEN LET r == dark_process_file(p, disk[p])
             IN /\ Handle(DARK, p, r)
                /\ out' = Printed(out, r, p)
                /\ total_files' = total_files + 1
                /\ modified_count' = IF r.ret THEN modified_count + 1 ELSE modified_count
        ELSE /\ out' = Append(out, Line("WARN", p))
             /\ UNCHANGED <<disk, last, togIns, impIns, total_files, modified_count>>
  /\ idx' = idx + 1
  /\ UNCHANGED <<disk0, script, pc, manual_count, reps>>

\* add_dark_mode.main: print(f"Summary: Modified {modified_files}/{total_files} files")
DarkSummary ==
  /\ AtEnd(DARK)
  /\ out' = Append(out, Line("SUMMARY", <<>>))
  /\ pc' = "done"
  /\ UNCHANGED <<disk0, disk, script, idx, total_files, modified_count, manual_count,
                 last, togIns, impIns, reps>>

\* add_toggle_component.main: one iteration of the loop
ComponentStep ==
  /\ InLoop(COMPONENT)
  /\ LET p == FileList(COMPONENT)[idx]
     IN IF disk[p].exists
        THEN LET r == component_process_file(p, disk[p])
             IN /\ Handle(COMPONENT, p, r)
                /\ out' = Printed(out, r, p)
                /\ modified_count' = IF r.ret THEN modified_count + 1 ELSE modified_count
                /\ manual_count' = IF ~r.ret /\ ManualInStr(r.ret)
                                   THEN manual_count + 1 ELSE manual_count
        ELSE /\ out' = Append(out, Line("WARN", p))
             /\ UNCHANGED <<disk, last, togIns, impIns, modified_count, manual_count>>
  /\ idx' = idx + 1
  /\ UNCHANGED <<disk0, script, pc, total_files, reps>>

\* add_toggle_component.main: the summary, with the manual line when manual_count > 0
ComponentSummary ==
  /\ AtEnd(COMPONENT)
  /\ out' = IF manual_count > 0
            THEN out \o <<Line("SUMMARY", <<>>), Line("SUMMARY_MANUAL", <<>>)>>
            ELSE Append(out, Line("SUMMARY", <<>>))
  /\ pc' = "done"
  /\ UNCHANGED <<disk0, disk, script, idx, total_files, modified_count, manual_count,
                 last, togIns, impIns, reps>>

\* add_toggle_final.main: if Path(f).exists() and process_file(Path(f)): modified += 1
FinalStep ==
  /\ InLoop(FINAL)
  /\ LET p == FileList(FINAL)[idx]
     IN IF disk[p].exists
        THEN LET r == final_process_file(p, disk[p])
             IN /\ Handle(FINAL, p, r)
                /\ out' = Printed(out, r, p)
                /\ modified_count' = IF r.ret THEN modified_count + 1 ELSE modified_count
        ELSE UNCHANGED <<disk, last, togIns, impIns, out, modified_count>>
  /\ idx' = idx + 1
  /\ UNCHANGED <<disk0, script, pc, total_files, manual_count, reps>>

\* add_toggle_final.main: print(f"\n{modified} files modified")
FinalSummary ==
  /\ AtEnd(FINAL)
  /\ out' = Append(out, Line("SUMMARY", <<>>))
  /\ pc' = "done"
  /\ UNCHANGED <<disk0, disk, script, idx, total_files, modified_count, manual_count,
                 last, togIns, impIns, reps>>

\* manual_toggle_add.main: one iteration; an exception of add_toggle ends main
ManualStep ==
  /\ InLoop(MANUAL_ADD)
  /\ LET p == FileList(MANUAL_ADD)[idx]
     IN IF disk[p].exists
        THEN LET r == add_toggle(p, disk[p])
             IN /\ Handle(MANUAL_ADD, p, r)
                /\ out' = Printed(out, r, p)
                /\ modified_count' = IF r.ret THEN modified_count + 1 ELSE modified_count
                /\ pc' = IF r.raised THEN "crashed" ELSE pc
                /\ idx' = IF r.raised THEN idx ELSE idx + 1
        ELSE /\ idx' = idx + 1
             /\ UNCHANGED <<disk, last, togIns, impIns, out, modified_count, pc>>
  /\ UNCHANGED <<disk0, script, total_files, manual_count, reps>>

\* manual_toggle_add.main: print(f"\n{modified} files modified")
ManualSummary ==
  /\ AtEnd(MANUAL_ADD)
  /\ out' = Append(out, Line("SUMMARY", <<>>))
  /\ pc' = "done"
  /\ UNCHANGED <<disk0, disk, script, idx, total_files, modified_count, manual_count,
                 last, togIns, impIns, reps>>

(***************************************************************************)
(* Spec: one run of one script over its file list.                         *)
(***************************************************************************)
S_PLAIN == <<IMPORT>>
S_DONE == <<IMPORT_DMT_STD, DIV_GAP, TOGGLE, LINK>>
S_LINK == <<IMPORT_DMT_STD, DIV_SPACE, LINK>>
S_LOGOUT == <<IMPORT_DMT_STD, DIV_SPACE, LOGOUT>>
S_AUTH == <<IMPORT_DMT_AUTH, RETURN_DIV>>
SampleContents == {S_PLAIN, S_DONE, S_LINK, S_LOGOUT, S_AUTH}
FaultContents == {S_LINK, S_LOGOUT}

FileStates ==
  {Missing} \cup {File(c, "rw") : c \in SampleContents}
            \cup {File(c, m) : c \in FaultContents, m \in {"noread", "nowrite"}}

Zero == [p \in Paths |-> 0]

Init ==
  /\ script \in Scripts
  /\ disk \in [Paths -> FileStates]
  /\ \A p \in Paths \ Listed(script) : disk[p] = File(S_LOGOUT, "rw")
  /\ disk0 = disk
  /\ pc = "loop"
  /\ idx = 1
  /\ total_files = 0
  /\ modified_count = 0
  /\ manual_count = 0
  /\ out = <<>>
  /\ last = NoCall
  /\ togIns = Zero
  /\ impIns = Zero
  /\ reps = 0

Next ==
  \/ DarkStep \/ DarkSummary
  \/ ComponentStep \/ ComponentSummary
  \/ FinalStep \/ FinalSummary
  \/ ManualStep \/ ManualSummary

Spec == Init /\ [][Next]_vars

(***************************************************************************)
(* SpecFile: the per-file handlers of the four scripts called on one file, *)
(* in any order and any number of times, from every text of up to MaxLen   *)
(* tokens over InputTokens.                                                *)
(***************************************************************************)
MaxLen == 3

InputTokens ==
  {NL, IMPORT, IMPORT_DMT_STD, TOGGLE, CMT_BELL, BELL, LOGOUT, DIV_GAP, DIV_SPACE,
   RETURN_DIV, CMT_ACTIONS, LINK, "bg-white", "dark:text-white"}

RECURSIVE SeqsUpTo(_)
SeqsUpTo(n) ==
  IF n = 0 THEN {<<>>}
  ELSE LET S == SeqsUpTo(n - 1)
       IN S \cup {Append(x, t) : x \in {y \in S : Len(y) = n - 1}, t \in InputTokens}

Contents == SeqsUpTo(MaxLen)

InitFile ==
  /\ \E p \in {P_AUTH, P_REVIEWS}, c \in Contents :
        disk = [q \in Paths |-> IF q = p THEN File(c, "rw") ELSE Missing]
  /\ disk0 = disk
  /\ script = ""
  /\ pc = "file"
  /\ idx = 0
  /\ total_files = 0
  /\ modified_count = 0
  /\ manual_count = 0
  /\ out = <<>>
  /\ last = NoCall
  /\ togIns = Zero
  /\ impIns = Zero
  /\ reps = 0

\* script s's handler called on the existing listed path p
Call(s, p) ==
  /\ pc = "file"
  /\ p \in Listed(s)
  /\ disk[p].exists
  /\ Handle(s, p, process_file(s, p, disk[p]))
  /\ script' = s
  /\ reps' = IF last.called /\ last.script = s /\ last.path = p THEN 2 ELSE 1
  /\ UNCHANGED <<disk0, pc, idx, total_files, modified_count, manual_count, out>>

DarkCall == \E p \in Paths : Call(DARK, p)
ComponentCall == \E p \in Paths : Call(COMPONENT, p)
FinalCall == \E p \in Paths : Call(FINAL, p)
ManualCall == \E p \in Paths : Call(MANUAL_ADD, p)

NextFile == DarkCall \/ ComponentCall \/ FinalCall \/ ManualCall

SpecFile == InitFile /\ [][NextFile]_vars


(***************************************************************************)
(* SpecChain: the two anchor chains, add_toggle_to_standard_page and       *)
(* add_toggle_generic, applied once to every text of up to MaxChainLen     *)
(* tokens over ChainTokens.  The functions are pure: nothing is written.   *)
(***************************************************************************)
MaxChainLen == 4

ChainTokens ==
  {NL, TOGGLE, CMT_BELL, BELL, LOGOUT, DIV_GAP, DIV_SPACE, CMT_ACTIONS, LINK}

RECURSIVE ChainSeqs(_)
ChainSeqs(n) ==
  IF n = 0 THEN {<<>>}
  ELSE LET S == ChainSeqs(n - 1)
       IN S \cup {Append(x, t) : x \in {y \in S : Len(y) = n - 1}, t \in ChainTokens}

InitChain ==
  /\ \E c \in ChainSeqs(MaxChainLen) :
        disk = [q \in Paths |-> IF q = P_REVIEWS THEN File(c, "rw") ELSE Missing]
  /\ disk0 = disk
  /\ script = ""
  /\ pc = "chain"
  /\ idx = 0
  /\ total_files = 0
  /\ modified_count = 0
  /\ manual_count = 0
  /\ out = <<>>
  /\ last = NoCall
  /\ togIns = Zero
  /\ impIns = Zero
  /\ reps = 0

\* content, modified = fn(content), as script s calls it on a standard page
Apply(s, r) ==
  /\ pc = "chain"
  /\ ~last.called
  /\ last' = [called |-> TRUE, script |-> s, path |-> P_REVIEWS, prevWrote |-> FALSE,
              res |-> [Base EXCEPT !.original = disk[P_REVIEWS].content,
                                   !.new = r.content, !.tcalled = TRUE,
                                   !.tin = disk[P_REVIEWS].content, !.tres = r]]
  /\ script' = s
  /\ reps' = 1
  /\ UNCHANGED <<disk, disk0, pc, idx, total_files, modified_count, manual_count,
                 out, togIns, impIns>>

StandardPageCall == Apply(COMPONENT, add_toggle_to_standard_page(disk[P_REVIEWS].content))
GenericCall == Apply(FINAL, add_toggle_generic(disk[P_REVIEWS].content))

NextChain == StandardPageCall \/ GenericCall

SpecChain == InitChain /\ [][NextChain]_vars


(***************************************************************************)
(* Properties.                                                             *)
(***************************************************************************)
RECURSIVE IsSubseq(_, _)
\* a is b with some tokens deleted
IsSubseq(a, b) ==
  IF a = <<>> THEN TRUE
  ELSE IF b = <<>> THEN FALSE
  ELSE IF Head(a) = Head(b) THEN IsSubseq(Tail(a), Tail(b))
  ELSE IsSubseq(a, Tail(b))

Count(o, tag) == Cardinality({k \in DOMAIN o : o[k].tag = tag})

\* C1: an error raised while reading or writing one listed file never leaves
\* the per-file loop: no handler lets an exception out and main() never ends
\* by an exception, so the later files are processed and the summary printed.
C1_ErrorsStayInTheLoop ==
  /\ last.called => ~last.res.raised
  /\ pc # "crashed"

\* C2: a file is written only when the new content differs from the content
\* read: a transformation that leaves the content equal writes nothing, and
\* what is written differs from what was read.
C2_WrittenOnlyWhenChanged ==
  last.called =>
    /\ last.res.new = last.res.original => ~last.res.wrote
    /\ last.res.wrote =>
         /\ last.res.written # last.res.original
         /\ disk[last.path].content = last.res.written

\* a handler wrote a file whose transformation matched an anchor
C2_Witness ==
  /\ last.called /\ last.script = COMPONENT
  /\ last.res.wrote /\ last.res.written # last.res.original

C4_InsertedAtMostOnce ==
  \A p \in Paths : togIns[p] <= 1 /\ impIns[p] <= 1

AnchorTokens(s, p) ==
  CASE s = DARK -> {IMPORT, BELL, LOGOUT} \cup BaseClasses
    [] s = COMPONENT -> IF AuthInStr(p) THEN {RETURN_DIV}
                        ELSE {CMT_BELL, BELL, LOGOUT, CMT_ACTIONS}
    [] s = FINAL -> {DIV_GAP, DIV_SPACE, LINK}
    [] s = MANUAL_ADD -> {LINK}

\* C6: a file that holds none of the anchors a script recognises is left
\* unchanged by that script, nothing is raised, nothing is written, and the
\* file is reported as not found / needing manual intervention.
C6_NoAnchorReportedManual ==
  (/\ last.called /\ last.res.didRead
   /\ \A i \in DOMAIN last.res.original :
         last.res.original[i] \notin AnchorTokens(last.script, last.path)) =>
    /\ last.res.new = last.res.original
    /\ ~last.res.wrote /\ ~last.res.raised /\ ~last.res.caught
    /\ last.res.tag \in {"MANUAL", "FAILED"}

\* base class at index i of c is followed by its own dark: variant
FollowedByOwn(c, i) ==
  LET j == SkipWs(c, i + 1) IN j <= Len(c) /\ c[j] = DarkOf(c[i])

\* occurrences of a mapped base class not followed by its own dark: variant
Bare(c) == {i \in DOMAIN c : c[i] \in BaseClasses /\ ~FollowedByOwn(c, i)}

\* C7: add_dark_mode_classes gives every occurrence of a mapped base class
\* that is not already followed by its own dark: variant exactly one copy of
\* that variant, and applying it again changes nothing.
C7_EveryBareClassGetsItsVariant ==
  (last.called /\ last.res.ccalled) =>
    /\ Bare(last.res.cout) = {}
    /\ Len(last.res.cout) = Len(last.res.cin) + 2 * Cardinality(Bare(last.res.cin))
    /\ add_dark_mode_classes(last.res.cout).content = last.res.cout

\* what a listed path is to script s before the run: already fully patched
\* (the import, the element and no bare colour class), or eligible (the
\* script's handler changes it)
IsPatched(f) ==
  /\ f.exists /\ f.mode = "rw"
  /\ \E i \in DOMAIN f.content : IsToggleElement(f.content[i])
  /\ \E i \in DOMAIN f.content : IsDMTImport(f.content[i])
  /\ Bare(f.content) = {}
IsEligible(s, p, f) == f.exists /\ f.mode = "rw" /\ process_file(s, p, f).wrote

\* C8: a run over three paths, one missing, one already fully patched and one
\* eligible, reports 1 modified, 1 skipped and 1 missing, and only the
\* eligible file differs on disk after the run.
C8_ThreePathReport ==
  (/\ pc = "done"
   /\ Len(FileList(script)) = 3
   /\ \E a, b, c \in Listed(script) :
        /\ ~disk0[a].exists
        /\ IsPatched(disk0[b])
        /\ IsEligible(script, c, disk0[c])) =>
    /\ modified_count = 1
    /\ Count(out, "OK") = 1
    /\ Count(out, "SKIP") = 1
    /\ Count(out, "WARN") = 1
    /\ Cardinality({p \in Paths : disk[p] # disk0[p]}) = 1
    /\ \A p \in Paths : disk[p] # disk0[p] => IsEligible(script, p, disk0[p])

\* C9: a listed path that is not on disk is reported with a warning line, is
\* not read or written, and the loop goes on to the next path.
C9_MissingPathWarned ==
  \A i \in 1..(idx - 1) :
     LET p == FileList(script)[i]
     IN ~disk0[p].exists =>
          /\ \E k \in DOMAIN out : out[k] = Line("WARN", p)
          /\ disk[p] = disk0[p]
          /\ last.called => last.path # p

\* C10: at the end of add_toggle_component's main, manual_count is the number
\* of files printed as [MANUAL], and the summary reports it when above zero.
C10_ManualCounted ==
  (script = COMPONENT /\ pc = "done") =>
    /\ manual_count = Count(out, "MANUAL")
    /\ manual_count > 0 => Count(out, "SUMMARY_MANUAL") = 1

\* all tokens of c strictly between a and b are whitespace
BlankBetween(c, a, b) == \A j \in (a + 1)..(b - 1) : IsSpace(c[j])

\* the regular expression of pattern k of add_toggle_to_standard_page matches c
StdRe(k, c) ==
  CASE k = 1 -> \E i \in DOMAIN c : i > 1 /\ IsSpace(c[i - 1]) /\ c[i] = CMT_BELL
    [] k = 2 -> \E d, b \in DOMAIN c :
                   d < b /\ c[d] = DIV_SPACE /\ c[b] = BELL /\ BlankBetween(c, d, b)
    [] k = 3 -> \E d, b \in DOMAIN c :
                   /\ d < b /\ c[d] \in {DIV_GAP, DIV_SPACE} /\ c[b] = LOGOUT
                   /\ \A j \in (d + 1)..(b - 1) : ~HasLt(c[j])
    [] k = 4 -> \E a, b \in DOMAIN c :
                   /\ a < b /\ c[a] = CMT_ACTIONS /\ BlankBetween(c, a, b)
                   /\ c[b] \in {DIV_GAP, DIV_SPACE, DIV_ABS}

\* the div tokens followed, after blanks only, by a dashboard link
LinkDivs(c) ==
  {d \in DOMAIN c : /\ c[d] \in {DIV_GAP, DIV_SPACE}
                    /\ \E n \in DOMAIN c : d < n /\ c[n] = LINK /\ BlankBetween(c, d, n)}

\* the regular expression of pattern k of add_toggle_generic matches c
GenRe(k, c) ==
  CASE k = 1 -> \E d \in DOMAIN c : c[d] = DIV_GAP
    [] k = 2 -> \E d \in DOMAIN c : c[d] = DIV_SPACE
    [] k = 3 -> LinkDivs(c) # {}

\* pattern k of add_toggle_generic has a match that also passes the pattern's
\* test of the nearby text (pattern 3: its first match passes)
GenOk(k, c) ==
  CASE k = 1 -> \E d \in DOMAIN c :
                   c[d] = DIV_GAP /\ ~ToggleNearAfter(c, SkipWs(c, d + 1) - 1)
    [] k = 2 -> \E d \in DOMAIN c :
                   /\ c[d] = DIV_SPACE
                   /\ ~ToggleNearAfter(c, SkipWs(c, d + 1) - 1)
                   /\ LogoutNearAfter(c, SkipWs(c, d + 1) - 1)
    [] k = 3 -> /\ LinkDivs(c) # {}
                /\ ~ToggleNearAround(c, Min(LinkDivs(c)), SkipWs(c, Min(LinkDivs(c)) + 1))

\* the lowest number of a set of pattern numbers, 0 for the empty set
Lowest(K) == IF K = {} THEN 0 ELSE Min(K)

\* the last call applied add_toggle_to_standard_page / add_toggle_generic
StdCalled ==
  last.called /\ last.res.tcalled /\ last.script = COMPONENT /\ ~AuthInStr(last.path)
GenCalled == last.called /\ last.res.tcalled /\ last.script = FINAL

\* the pattern whose anchor the insertion of the last call was made at: the
\* tokens of the input the match covered tell the patterns apart
StdUsed ==
  LET a == last.res.tin[last.res.tres.me]
  IN CASE a = CMT_BELL -> 1 [] a = BELL -> 2 [] a = LOGOUT -> 3 [] OTHER -> 4
GenUsed ==
  IF last.res.tin[last.res.tres.me] = LINK THEN 3
  ELSE IF last.res.tin[last.res.tres.ms + 1] = DIV_GAP THEN 1 ELSE 2

\* the last call did what a chain whose lowest matching pattern is k does:
\* k = 0, not found and the content returned as it was; else one element
\* inserted at the anchor of pattern k
ChainDid(k, used) ==
  IF k = 0
  THEN ~last.res.tres.changed /\ last.res.tres.content = last.res.tin
  ELSE /\ last.res.tres.changed
       /\ used = k
       /\ NumToggles(last.res.tres.content) = NumToggles(last.res.tin) + 1

\* C11: the patterns are tried in their numbered order: the insertion is at
\* the lowest-numbered pattern whose regular expression matches the content,
\* at one anchor, and not found is returned only when none matches.
C11_LowestMatchingPatternWins ==
  /\ StdCalled => ChainDid(Lowest({k \in 1..4 : StdRe(k, last.res.tin)}), StdUsed)
  /\ GenCalled => ChainDid(Lowest({k \in 1..3 : GenRe(k, last.res.tin)}), GenUsed)

\* C11 as amended: a pattern of add_toggle_generic counts as matching only
\* when a match of its regular expression also passes the pattern's test of
\* the nearby text; the insertion is at the lowest-numbered such pattern.
C11_LowestPassingPatternWins ==
  /\ StdCalled => ChainDid(Lowest({k \in 1..4 : StdRe(k, last.res.tin)}), StdUsed)
  /\ GenCalled => ChainDid(Lowest({k \in 1..3 : GenOk(k, last.res.tin)}), GenUsed)

\* add_toggle_generic inserted at pattern 3 although the regular expression
\* of pattern 2 matched too: no 'logout' followed the space-x div
C11_Witness ==
  /\ GenCalled /\ last.res.tres.changed /\ GenUsed = 3
  /\ GenRe(2, last.res.tin) /\ ~GenOk(2, last.res.tin)

\* C12: a call that inserts a <DarkModeToggle /> element into a file leaves
\* the file with an 'import DarkModeToggle' statement: no script inserts the
\* element into a file that lacks the import.
C12_ElementOnlyWithImport ==
  (/\ last.called /\ last.res.wrote
   /\ NumToggles(last.res.written) > NumToggles(last.res.original)) =>
    /\ disk[last.path].content = last.res.written
    /\ \E i \in DOMAIN last.res.written : IsDMTImport(last.res.written[i])

====
